---- MODULE Spec2Model ----
(***************************************************************************)
(* Evolutionary operators for DolloNode individuals                        *)
(* (dollo_node_operators.py): fitness evaluation over a memoized           *)
(* closest-node query, subtree / edge crossover and the mutation scaffold. *)
(*                                                                         *)
(* Python objects live in a heap: an individual is an address, a deep copy *)
(* is a new address holding the same tree value, and an in-place change of *)
(* a tree is a write to its address.  A tree value is a nested record      *)
(* [label, tag, children]; a node label is the pair <<trait, sign>>.       *)
(***************************************************************************)
EXTENDS Integers, Sequences, FiniteSets, TLC

\* ------------------------------------------------------------------ bounds
MaxObjects == 4
MaxReads == 2
AlphaDen == 2
RandDen == 2

\* ------------------------------------------------------- labels and reads
\* the trait alphabet of the illustrations, cut to four traits; "d" is a
\* trait that no tree of the population carries
Traits == <<"a", "b", "c", "d">>

RootLabel == <<"-", "-">>
Plus(lab) == <<lab, "+">>
Minus(lab) == <<lab, "-">>
IsPlus(x) == x[2] = "+" /\ x # RootLabel

TraitRank(t) == CASE t = "-" -> 0 [] t = "a" -> 1 [] t = "b" -> 2
                  [] t = "c" -> 3 [] OTHER -> 4
\* string order of "a+" < "a-" < "b+" ... ; the root "--" sorts first
LabelRank(x) == 2 * TraitRank(x[1]) + (IF x[2] = "-" THEN 1 ELSE 0)

SeqToSet(s) == {s[i] : i \in 1..Len(s)}

\* ------------------------------------------------------------ tree values
Node(label, children) == [label |-> label, tag |-> {}, children |-> children]
Leaf(label) == Node(label, <<>>)

RECURSIVE PreOrder(_)
RECURSIVE PreOrderSeq(_)
PreOrderSeq(cs) == IF cs = <<>> THEN <<>>
                   ELSE PreOrder(Head(cs)) \o PreOrderSeq(Tail(cs))
PreOrder(n) == <<n>> \o PreOrderSeq(n.children)

\* anytree: node.descendants, all nodes below the receiver in pre-order
descendants(n) == Tail(PreOrder(n))

tree_labels(n) == {x.label : x \in SeqToSet(PreOrder(n))}

\* DolloNode.tree_is_equal: same labels and same children, in order
RECURSIVE tree_is_equal(_, _)
tree_is_equal(n1, n2) ==
    /\ n1.label = n2.label
    /\ Len(n1.children) = Len(n2.children)
    /\ \A i \in 1..Len(n1.children) :
           tree_is_equal(n1.children[i], n2.children[i])

\* DolloNode.tree_set_binary_tags(labels): the receiver's signature is its
\* parent's with the receiver's own trait switched on (+) or off (-), for
\* the traits of the label list; then the same below the receiver
OwnTag(ptag, x, labels) ==
    IF x[1] \in SeqToSet(labels)
    THEN (IF x[2] = "+" THEN ptag \cup {x[1]} ELSE ptag \ {x[1]})
    ELSE ptag
RECURSIVE tree_set_binary_tags(_, _, _)
tree_set_binary_tags(n, ptag, labels) ==
    LET t == IF n.label = RootLabel THEN {} ELSE OwnTag(ptag, n.label, labels)
    IN [label |-> n.label, tag |-> t,
        children |-> [i \in 1..Len(n.children) |->
                         tree_set_binary_tags(n.children[i], t, labels)]]

\* DolloNode.tree_compact_vertical: a node whose only child repeats the
\* node's own label stands for one event; the chain is collapsed
RECURSIVE tree_compact_vertical(_)
tree_compact_vertical(n) ==
    LET cs == [i \in 1..Len(n.children) |-> tree_compact_vertical(n.children[i])]
    IN IF Len(cs) = 1 /\ cs[1].label = n.label
       THEN [n EXCEPT !.children = cs[1].children]
       ELSE [n EXCEPT !.children = cs]

\* DolloNode.tree_compact_horizontal: siblings with the same label are
\* merged into the first of them
RECURSIVE MergeSiblings(_)
MergeSiblings(cs) ==
    IF cs = <<>> THEN <<>>
    ELSE LET h == Head(cs)
             same == SelectSeq(Tail(cs), LAMBDA c : c.label = h.label)
             rest == SelectSeq(Tail(cs), LAMBDA c : c.label # h.label)
             RECURSIVE Gather(_)
             Gather(s) == IF s = <<>> THEN <<>>
                          ELSE Head(s).children \o Gather(Tail(s))
         IN <<[h EXCEPT !.children = h.children \o Gather(same)]>>
            \o MergeSiblings(rest)
RECURSIVE tree_compact_horizontal(_)
tree_compact_horizontal(n) ==
    LET m == MergeSiblings(n.children)
    IN [n EXCEPT !.children =
            [i \in 1..Len(m) |-> tree_compact_horizontal(m[i])]]

\* DolloNode.tree_rearange_by_label: children ordered by label, at every
\* node of the receiver's subtree
RECURSIVE InsertByLabel(_, _)
InsertByLabel(c, s) ==
    IF s = <<>> THEN <<c>>
    ELSE IF LabelRank(c.label) < LabelRank(Head(s).label) THEN <<c>> \o s
    ELSE <<Head(s)>> \o InsertByLabel(c, Tail(s))
RECURSIVE SortByLabel(_)
SortByLabel(s) == IF s = <<>> THEN <<>>
                  ELSE InsertByLabel(Head(s), SortByLabel(Tail(s)))
RECURSIVE tree_rearange_by_label(_)
tree_rearange_by_label(n) ==
    LET cs == [i \in 1..Len(n.children) |-> tree_rearange_by_label(n.children[i])]
    IN [n EXCEPT !.children = SortByLabel(cs)]

\* DolloNode.tree_get_partition: for every plus node of the tree, the list
\* of the label sets of the subtrees below it, one set per child
tree_get_partition(n) ==
    LET nodes == SeqToSet(PreOrder(n))
        keys == {x.label : x \in {y \in nodes : IsPlus(y.label)}}
    IN [k \in keys |->
          LET x == CHOOSE y \in nodes : y.label = k
          IN [i \in 1..Len(x.children) |-> tree_labels(x.children[i])]]

\* ------------------------------------------------------------- tree paths
\* a node of a tree is named by its path, the child indexes from the root
RECURSIVE NodeAt(_, _)
NodeAt(n, p) == IF p = <<>> THEN n ELSE NodeAt(n.children[Head(p)], Tail(p))

RECURSIVE PathsOf(_, _, _)
PathsOf(n, x, here) ==
    (IF n.label = x THEN {here} ELSE {})
    \cup UNION {PathsOf(n.children[i], x, Append(here, i)) :
                   i \in 1..Len(n.children)}

Front(p) == SubSeq(p, 1, Len(p) - 1)
RemoveIndex(s, k) == SubSeq(s, 1, k - 1) \o SubSeq(s, k + 1, Len(s))

\* the tree without the subtree at path p (anytree: detach from the parent)
RECURSIVE Detach(_, _)
Detach(n, p) ==
    IF Len(p) = 1 THEN [n EXCEPT !.children = RemoveIndex(n.children, p[1])]
    ELSE [n EXCEPT !.children[Head(p)] = Detach(n.children[Head(p)], Tail(p))]

\* the tree with sub as the new last child of the node at path p
\* (anytree: attach to the parent)
RECURSIVE Attach(_, _, _)
Attach(n, p, sub) ==
    IF p = <<>> THEN [n EXCEPT !.children = Append(n.children, sub)]
    ELSE [n EXCEPT !.children[Head(p)] = Attach(n.children[Head(p)], Tail(p), sub)]

\* ------------------------------------------------------------------ reads
\* ReadElement: the observed bits and the mask of the unknown positions,
\* both over the positions of Traits (the identifier plays no part in a
\* distance and is left out)
ReadElement(binary_read, unknown_read) ==
    [binary_read |-> binary_read, unknown_read |-> unknown_read]

\* DolloNode.closest_node_in_tree: the first node, in pre-order, whose
\* signature differs from the read in the fewest known positions
Distance(tag, read) ==
    Cardinality({i \in 1..Len(Traits) :
                    /\ Traits[i] \notin read.unknown_read
                    /\ (Traits[i] \in read.binary_read) # (Traits[i] \in tag)})
closest_node_in_tree(root, read) ==
    LET nodes == PreOrder(root)
        dist == [i \in 1..Len(nodes) |-> Distance(nodes[i].tag, read)]
        best == CHOOSE i \in 1..Len(nodes) :
                   /\ \A j \in 1..Len(nodes) : dist[i] <= dist[j]
                   /\ \A j \in 1..(i - 1) : dist[j] > dist[i]
    IN [node |-> best, d |-> dist[best]]

\* ------------------------------------------------- values passed to a call
\* Python passes any object in any position: a call argument is a DolloNode
\* (by address) or a number
DolloNodeRef(a) == [kind |-> "DolloNode", ref |-> a, num |-> 0]
Number(n) == [kind |-> "number", ref |-> 0, num |-> n]

\* lru_cache(maxsize=8192): the cache never holds more entries than this
maxsize == 8192

\* the cache key of a call dolo_closest_node_distance(individual, read)
CacheKey(individual, read) == <<individual.ref, read>>

\* dolo_closest_node_distance under lru_cache: a cached pair is served as it
\* was stored, anything else is computed on the tree as it is now
dolo_closest_node_distance(h, c, individual, read) ==
    IF CacheKey(individual, read) \in DOMAIN c
    THEN c[CacheKey(individual, read)]
    ELSE closest_node_in_tree(h[individual.ref], read)

\* the reads of the loops of level n of one read: every choice of n
\* positions i < j < k whose bits are set, with those bits cleared
ClearedReads(read, n) ==
    {ReadElement(read.binary_read \ {Traits[i] : i \in I}, read.unknown_read) :
        I \in {J \in SUBSET (1..Len(Traits)) :
                  /\ Cardinality(J) = n
                  /\ \A i \in J : Traits[i] \in read.binary_read}}

RECURSIVE SumOfDistances(_, _, _, _)
SumOfDistances(h, c, individual, rs) ==
    IF rs = {} THEN 0
    ELSE LET r == CHOOSE x \in rs : TRUE
         IN dolo_closest_node_distance(h, c, individual, r).d
            + SumOfDistances(h, c, individual, rs \ {r})

\* the sum, over the reads of the list, of the distances of the reads of
\* level n
RECURSIVE LevelSum(_, _, _, _, _)
LevelSum(h, c, individual, reads, n) ==
    IF reads = <<>> THEN 0
    ELSE SumOfDistances(h, c, individual, ClearedReads(Head(reads), n))
         + LevelSum(h, c, individual, Tail(reads), n)

\* a call fails with AttributeError as soon as closest_node_in_tree is
\* asked of something that is not a DolloNode
Raises(reads, individual) == reads # <<>> /\ individual.kind # "DolloNode"

\* Fitness values are kept as integers: value = fitness * AlphaDen^2, with
\* alpha = alpha.num / AlphaDen.
dollo_evaluate_direct_level0(h, c, reads, alpha, individual) ==
    IF Raises(reads, individual) THEN [raised |-> TRUE, value |-> 0]
    ELSE [raised |-> FALSE,
          value |-> AlphaDen * AlphaDen * LevelSum(h, c, individual, reads, 0)]

dollo_evaluate_direct_level1(h, c, reads, alpha, individual) ==
    LET l0 == dollo_evaluate_direct_level0(h, c, reads, alpha, individual)
    IN IF l0.raised THEN l0
       ELSE [raised |-> FALSE,
             value |-> l0.value
                 + AlphaDen * alpha.num * LevelSum(h, c, individual, reads, 1)]

dollo_evaluate_direct_level2(h, c, reads, alpha, individual) ==
    LET l1 == dollo_evaluate_direct_level1(h, c, reads, alpha, individual)
    IN IF l1.raised THEN l1
       ELSE [raised |-> FALSE,
             value |-> l1.value
                 + alpha.num * alpha.num * LevelSum(h, c, individual, reads, 2)]

\* level 3 with the terms of the triples taken off instead of added
dollo_evaluate_direct_level3_minus(h, c, reads, alpha, individual) ==
    LET l2 == dollo_evaluate_direct_level2(h, c, reads, alpha, individual)
    IN IF l2.raised THEN l2
       ELSE [raised |-> FALSE,
             value |-> l2.value
                 - alpha.num * alpha.num * LevelSum(h, c, individual, reads, 3)]

dollo_evaluate_direct_level3(h, c, reads, alpha, individual) ==
    LET l2 == dollo_evaluate_direct_level2(h, c, reads, alpha, individual)
    IN IF l2.raised THEN l2
       ELSE [raised |-> FALSE,
             value |-> l2.value
                 + alpha.num * alpha.num * LevelSum(h, c, individual, reads, 3)]

\* evaluate_dollo_node_individual(reads, individual, alpha) hands its
\* arguments on in the order (reads, individual, alpha)
evaluate_dollo_node_individual(h, c, reads, individual, alpha) ==
    dollo_evaluate_direct_level2(h, c, reads, individual, alpha)

evaluate_level(L, h, c, reads, alpha, individual) ==
    CASE L = 0 -> dollo_evaluate_direct_level0(h, c, reads, alpha, individual)
      [] L = 1 -> dollo_evaluate_direct_level1(h, c, reads, alpha, individual)
      [] L = 2 -> dollo_evaluate_direct_level2(h, c, reads, alpha, individual)
      [] OTHER -> dollo_evaluate_direct_level3(h, c, reads, alpha, individual)

\* the cache after a call of level L: every read of the list and every
\* read of the levels 1..L of it has an entry
KeysOfLevel(reads, individual, L) ==
    {CacheKey(individual, r) :
        r \in UNION {ClearedReads(reads[i], n) : i \in 1..Len(reads), n \in 0..L}}
CacheAfter(h, c, reads, individual, L) ==
    IF Raises(reads, individual) THEN c
    ELSE [k \in DOMAIN c \cup KeysOfLevel(reads, individual, L) |->
            IF k \in DOMAIN c THEN c[k]
            ELSE closest_node_in_tree(h[k[1]], k[2])]

\* ---------------------------------------------------------------- the heap
\* the heap is the sequence of the live trees; an address is an index
\* a copy that is the object itself
deepcopy_alias(h, a) == [heap |-> h, addr |-> a]

\* copy.deepcopy: a new object that holds the same tree
deepcopy(h, a) == [heap |-> Append(h, h[a]), addr |-> Len(h) + 1]

\* what an operator hands back: the outcome and the heap it leaves behind
None == 0
Result(h) ==
    [raised |-> FALSE, success |-> FALSE, out1 |-> None, out2 |-> None,
     heap |-> h, examined |-> 0, draws |-> 0, variant |-> <<>>, tried |-> <<>>]
Raise(h, r) == [r EXCEPT !.raised = TRUE, !.success = FALSE, !.out1 = None,
                         !.out2 = None, !.heap = h]

\* set_consits_of_plus_lebels: the plus labels of a list of label sets
set_consits_of_plus_lebels(list_of_sets) ==
    {x \in UNION {list_of_sets[i] : i \in 1..Len(list_of_sets)} : x[2] = "+"}

\* sets_are_equal: each set holds every element of the other
sets_are_equal(set1, set2) ==
    /\ \A x \in set1 : x \in set2
    /\ \A x \in set2 : x \in set1

\* anytree search.find: the node with the label, None when there is none,
\* CountError when there are several
find(root, lab) ==
    LET ps == PathsOf(root, lab, <<>>)
    IN IF ps = {} THEN [raised |-> FALSE, found |-> FALSE, path |-> <<>>]
       ELSE IF Cardinality(ps) > 1
            THEN [raised |-> TRUE, found |-> FALSE, path |-> <<>>]
       ELSE [raised |-> FALSE, found |-> TRUE, path |-> CHOOSE q \in ps : TRUE]

\* lines 246-259: the guards on the partitions of the two copies
PartitionGuards(part1, part2, lab) ==
    /\ lab \in DOMAIN part1
    /\ set_consits_of_plus_lebels(part1[lab]) # {}
    /\ lab \in DOMAIN part2
    /\ set_consits_of_plus_lebels(part2[lab]) # {}
    /\ sets_are_equal(set_consits_of_plus_lebels(part1[lab]),
                      set_consits_of_plus_lebels(part2[lab]))

\* lines 282-285 and 289-292: compaction and regularization of the subtree
\* rooted at the node that was moved below a parent with signature ptag
Regularize(node, ptag, labels) ==
    tree_set_binary_tags(
        tree_rearange_by_label(
            tree_compact_horizontal(tree_compact_vertical(node))),
        ptag, labels)

\* lines 275-292: node1 goes below the parent of node2 and node2 below the
\* parent of node1, each as the last child; both trees are changed in place
ExchangeNodes(h, labels, n1, n2, p1, p2) ==
    LET node1 == NodeAt(h[n1], p1)
        node2 == NodeAt(h[n2], p2)
        ptag1 == NodeAt(h[n1], Front(p1)).tag
        ptag2 == NodeAt(h[n2], Front(p2)).tag
        t1 == Attach(Detach(h[n1], p1), Front(p1), Regularize(node2, ptag1, labels))
        t2 == Attach(Detach(h[n2], p2), Front(p2), Regularize(node1, ptag2, labels))
    IN [a \in DOMAIN h |-> IF a = n2 THEN t2 ELSE IF a = n1 THEN t1 ELSE h[a]]

\* the loop without its break: it goes on after an exchange
RECURSIVE ExchangeLoop_nobreak(_, _, _, _, _)
ExchangeLoop_nobreak(h, labels, n1, n2, k) ==
    IF k > Len(labels)
    THEN [Result(h) EXCEPT !.out1 = n1, !.out2 = n2, !.examined = Len(labels)]
    ELSE LET lab == Plus(labels[k])
             f1 == find(h[n1], lab)
             f2 == find(h[n2], lab)
             rest == ExchangeLoop_nobreak(h, labels, n1, n2, k + 1)
         IN IF ~PartitionGuards(tree_get_partition(h[n1]),
                                tree_get_partition(h[n2]), lab)
            THEN rest
            ELSE IF f1.raised \/ f2.raised
                 THEN Raise(h, [Result(h) EXCEPT !.examined = k])
            ELSE IF tree_is_equal(NodeAt(h[n1], f1.path), NodeAt(h[n2], f2.path))
                 THEN rest
            ELSE LET more == ExchangeLoop_nobreak(
                                 ExchangeNodes(h, labels, n1, n2, f1.path, f2.path),
                                 labels, n1, n2, k + 1)
                 IN [more EXCEPT !.success = TRUE,
                        !.variant = IF more.success THEN more.variant ELSE lab]

\* lines 244-294: the loop over the labels, from the k-th label on
RECURSIVE ExchangeLoop(_, _, _, _, _)
ExchangeLoop(h, labels, n1, n2, k) ==
    IF k > Len(labels)
    THEN [Result(h) EXCEPT !.out1 = n1, !.out2 = n2, !.examined = Len(labels)]
    ELSE LET lab == Plus(labels[k])
             f1 == find(h[n1], lab)
             f2 == find(h[n2], lab)
         IN IF ~PartitionGuards(tree_get_partition(h[n1]),
                                tree_get_partition(h[n2]), lab)
            THEN ExchangeLoop(h, labels, n1, n2, k + 1)
            ELSE IF f1.raised \/ f2.raised
                 THEN Raise(h, [Result(h) EXCEPT !.examined = k])
            ELSE IF tree_is_equal(NodeAt(h[n1], f1.path), NodeAt(h[n2], f2.path))
                 THEN ExchangeLoop(h, labels, n1, n2, k + 1)
            ELSE [Result(h) EXCEPT
                    !.success = TRUE, !.out1 = n1, !.out2 = n2, !.examined = k,
                    !.variant = lab,
                    !.heap = ExchangeNodes(h, labels, n1, n2, f1.path, f2.path)]

\* the exchange made on the two individuals themselves
dollo_crossover_exchange_subtrees_inplace(h, labels, individual1, individual2) ==
    IF tree_is_equal(h[individual1], h[individual2])
    THEN [Result(h) EXCEPT !.out1 = individual1, !.out2 = individual2]
    ELSE LET r == ExchangeLoop(h, labels, individual1, individual2, 1)
         IN IF r.raised THEN Raise(h, r) ELSE r

\* dollo_crossover_exchange_subtrees
dollo_crossover_exchange_subtrees(h, labels, individual1, individual2) ==
    IF tree_is_equal(h[individual1], h[individual2])
    THEN [Result(h) EXCEPT !.out1 = individual1, !.out2 = individual2]
    ELSE LET c1 == deepcopy(h, individual1)
             c2 == deepcopy(c1.heap, individual2)
             r == ExchangeLoop(c2.heap, labels, c1.addr, c2.addr, 1)
         IN IF r.raised THEN Raise(h, r) ELSE r

\* line 315: random01 < len(labels) / float(1 + len(descendants)), with
\* random01 = r / RandDen
LabelIsPlus(r, labels, root) ==
    r * (1 + Len(descendants(root))) < Len(labels) * RandDen

\* lines 311-334: the edge exchange of two trees that are not equal
EdgeOfCopies(h, labels, individual1, individual2, choice, r) ==
    LET c1 == deepcopy(h, individual1)
        c2 == deepcopy(c1.heap, individual2)
        ok == [Result(c2.heap) EXCEPT
                 !.success = TRUE, !.out1 = c1.addr, !.out2 = c2.addr]
    IN IF labels = <<>>
       THEN Raise(h, [Result(h) EXCEPT !.draws = 1])
       ELSE IF LabelIsPlus(r, labels, c2.heap[c1.addr])
       THEN LET random_label == Plus(labels[choice])
                f1 == find(c2.heap[c1.addr], random_label)
                f2 == find(c2.heap[c2.addr], random_label)
            IN IF f1.raised \/ f2.raised \/ ~f1.found \/ ~f2.found
               THEN Raise(h, [Result(h) EXCEPT
                                !.draws = 2, !.variant = random_label])
               ELSE [ok EXCEPT !.draws = 2, !.variant = random_label]
       ELSE [ok EXCEPT !.draws = 2, !.variant = Minus(labels[choice])]

\* the edge exchange without the test for equal trees
dollo_crossover_exchange_edge_unguarded(h, labels, individual1, individual2, choice, r) ==
    EdgeOfCopies(h, labels, individual1, individual2, choice, r)

\* dollo_crossover_exchange_edge; choice and r are the two random draws
dollo_crossover_exchange_edge(h, labels, individual1, individual2, choice, r) ==
    IF tree_is_equal(h[individual1], h[individual2])
    THEN [Result(h) EXCEPT !.out1 = individual1, !.out2 = individual2]
    ELSE EdgeOfCopies(h, labels, individual1, individual2, choice, r)

\* crossover_dollo_node_individuals; the copies of an attempt that reported
\* failure are dropped with it
crossover_dollo_node_individuals(h, labels, individual1, individual2, choice, r) ==
    LET s == dollo_crossover_exchange_subtrees(h, labels, individual1, individual2)
        e == dollo_crossover_exchange_edge(h, labels, individual1, individual2,
                                           choice, r)
        n1 == deepcopy(h, individual1)
        n2 == deepcopy(n1.heap, individual2)
    IN IF s.raised \/ s.success THEN [s EXCEPT !.tried = <<"subtrees">>]
       ELSE IF e.raised \/ e.success
            THEN [e EXCEPT !.tried = <<"subtrees", "edge">>,
                           !.examined = s.examined]
       ELSE [Result(n2.heap) EXCEPT
               !.out1 = n1.addr, !.out2 = n2.addr, !.examined = s.examined,
               !.draws = e.draws, !.tried = <<"subtrees", "edge", "copies">>]

\* dollo_mutation_node_add: random.choice fails on an individual without
\* descendants and on an empty label list; nothing is added yet
dollo_mutation_node_add(h, labels, k, individual) ==
    LET c == deepcopy(h, individual)
    IN IF descendants(c.heap[c.addr]) = <<>>
       THEN Raise(h, Result(h))
       ELSE IF labels = <<>>
            THEN Raise(h, [Result(h) EXCEPT !.draws = 1])
       ELSE [Result(c.heap) EXCEPT !.out1 = c.addr, !.draws = 3]

\* mutate_dollo_node_individual
mutate_dollo_node_individual(h, labels, k, individual) ==
    LET a == dollo_mutation_node_add(h, labels, k, individual)
        c == deepcopy(h, individual)
    IN IF a.raised \/ a.success THEN [a EXCEPT !.tried = <<"add">>]
       ELSE [Result(c.heap) EXCEPT !.out1 = c.addr, !.draws = a.draws,
                                   !.tried = <<"add", "copy">>]

\* ------------------------------------------------------------- the inputs
\* the Dollo k of the illustration; no operator reads it
K == 2

\* trees as init_dollo_node_individual leaves them: every plus label at most
\* once, a minus label only below its plus label, signatures set
Chain(l1, l2, l3) == Node(l1, <<Node(l2, <<Leaf(l3)>>)>>)
Tree(children) == tree_set_binary_tags(Node(RootLabel, children), {}, Traits)
TreePool ==
    << Tree(<<>>),
       Tree(<<Chain(Plus("a"), Plus("b"), Plus("c"))>>),
       Tree(<<Node(Plus("a"), <<Chain(Plus("b"), Plus("c"), Minus("a"))>>)>>),
       Tree(<<Node(Plus("a"), <<Leaf(Plus("b"))>>), Leaf(Plus("c"))>>),
       Tree(<<Chain(Plus("c"), Plus("a"), Plus("b"))>>),
       Tree(<<Chain(Plus("a"), Plus("b"), Minus("a")), Leaf(Plus("c"))>>) >>

LabelLists == {<<>>, <<"a", "b">>, <<"b", "a">>, <<"d">>}

\* the reads of a run, two reads in turn, and the lists of reads handed to
\* an evaluator: the first reads of the run
ReadSeq == [i \in 1..MaxReads |->
              IF i % 2 = 1 THEN ReadElement({"a", "b"}, {})
              ELSE ReadElement({"a", "b", "c", "d"}, {"b"})]
ReadLists == {SubSeq(ReadSeq, 1, n) : n \in 0..MaxReads}
\* alpha = -1/AlphaDen, 0, 1/AlphaDen
Alphas == {0 - 1, 0, 1}
Levels == 0..3

\* the labels, the reads and the alpha of a search run
SearchLabels == <<"a", "b", "c">>
Dataset == <<ReadElement({"b", "c"}, {})>>
DatasetAlpha == 1

\* --------------------------------------------------------------- the state
VARIABLES heap, cache, ret
vars == <<heap, cache, ret>>

Allocated == 1..Len(heap)
EmptyCache == [k \in {} |-> 0]

NoCall ==
    [op |-> "none", labels |-> <<>>, in1 |-> None, in2 |-> None,
     raised |-> FALSE, success |-> FALSE, out1 |-> None, out2 |-> None,
     examined |-> 0, draws |-> 0, variant |-> <<>>, tried |-> <<>>,
     level |-> 0, reads |-> <<>>, alpha |-> 0, value |-> 0, fitness |-> <<>>]

Returned(op, labels, in1, in2, r) ==
    [NoCall EXCEPT !.op = op, !.labels = labels, !.in1 = in1, !.in2 = in2,
                   !.raised = r.raised, !.success = r.success,
                   !.out1 = r.out1, !.out2 = r.out2, !.examined = r.examined,
                   !.draws = r.draws, !.variant = r.variant, !.tried = r.tried]

Init ==
    /\ heap \in {<<TreePool[p[1]], TreePool[p[2]]>> :
                    p \in {q \in (1..Len(TreePool)) \X (1..Len(TreePool)) :
                              q[1] <= q[2]}}
    /\ cache = EmptyCache
    /\ ret = NoCall

\* a search run starts from two of the first trees of the pool
InitSearch ==
    /\ heap \in {<<TreePool[p[1]], TreePool[p[2]]>> :
                    p \in {q \in (2..4) \X (2..4) : q[1] <= q[2]}}
    /\ cache = EmptyCache
    /\ ret = NoCall

InitEval ==
    /\ heap \in {<<TreePool[i]>> : i \in 1..3}
    /\ cache = EmptyCache
    /\ ret = NoCall

\* ------------------------------------------------------------- the actions
EvaluateLevel(L, reads, alpha, individual) ==
    LET v == evaluate_level(L, heap, cache, reads, Number(alpha),
                            DolloNodeRef(individual))
    IN /\ cache' = CacheAfter(heap, cache, reads, DolloNodeRef(individual), L)
       /\ Cardinality(DOMAIN cache') <= maxsize
       /\ ret' = [NoCall EXCEPT !.op = "evaluate_level", !.level = L,
                                !.reads = reads, !.alpha = alpha,
                                !.in1 = individual, !.raised = v.raised,
                                !.value = v.value]
       /\ UNCHANGED heap

Evaluate(reads, individual, alpha) ==
    LET v == evaluate_dollo_node_individual(heap, cache, reads,
                 DolloNodeRef(individual), Number(alpha))
    IN /\ cache' = CacheAfter(heap, cache, reads, Number(alpha), 2)
       /\ Cardinality(DOMAIN cache') <= maxsize
       /\ ret' = [NoCall EXCEPT !.op = "evaluate", !.reads = reads,
                                !.alpha = alpha, !.in1 = individual,
                                !.raised = v.raised,
                                !.fitness = IF v.raised THEN <<>> ELSE <<v.value>>]
       /\ UNCHANGED heap

CrossoverSubtree(labels, individual1, individual2) ==
    LET r == dollo_crossover_exchange_subtrees(heap, labels, individual1,
                                               individual2)
    IN /\ Len(heap) + 2 <= MaxObjects
       /\ heap' = r.heap
       /\ ret' = Returned("crossover_subtree", labels, individual1, individual2, r)
       /\ UNCHANGED cache

CrossoverEdge(labels, individual1, individual2, choice, r01) ==
    LET r == dollo_crossover_exchange_edge(heap, labels, individual1,
                                           individual2, choice, r01)
    IN /\ Len(heap) + 2 <= MaxObjects
       /\ heap' = r.heap
       /\ ret' = Returned("crossover_edge", labels, individual1, individual2, r)
       /\ UNCHANGED cache

Crossover(labels, individual1, individual2, choice, r01) ==
    LET r == crossover_dollo_node_individuals(heap, labels, individual1,
                                              individual2, choice, r01)
    IN /\ Len(heap) + 2 <= MaxObjects
       /\ heap' = r.heap
       /\ ret' = Returned("crossover", labels, individual1, individual2, r)
       /\ UNCHANGED cache

MutationAdd(labels, individual) ==
    LET r == dollo_mutation_node_add(heap, labels, K, individual)
    IN /\ Len(heap) + 1 <= MaxObjects
       /\ heap' = r.heap
       /\ ret' = Returned("mutation_add", labels, individual, None, r)
       /\ UNCHANGED cache

Mutate(labels, individual) ==
    LET r == mutate_dollo_node_individual(heap, labels, K, individual)
    IN /\ Len(heap) + 1 <= MaxObjects
       /\ heap' = r.heap
       /\ ret' = Returned("mutate", labels, individual, None, r)
       /\ UNCHANGED cache

\* the random draws of a call: an index into the label list (1 stands in
\* when the list is empty and the draw fails) and random01 = r01 / RandDen
Choices(labels) == IF labels = <<>> THEN {1} ELSE 1..Len(labels)
Random01 == 0..(RandDen - 1)

Next ==
    \/ \E ls \in LabelLists, i1 \in Allocated, i2 \in Allocated :
          CrossoverSubtree(ls, i1, i2)
    \/ \E ls \in LabelLists, i1 \in Allocated, i2 \in Allocated :
          \E ch \in Choices(ls), r01 \in Random01 :
             CrossoverEdge(ls, i1, i2, ch, r01)
    \/ \E ls \in LabelLists, i1 \in Allocated, i2 \in Allocated :
          \E ch \in Choices(ls), r01 \in Random01 :
             Crossover(ls, i1, i2, ch, r01)
    \/ \E ls \in LabelLists, i \in Allocated : MutationAdd(ls, i)
    \/ \E ls \in LabelLists, i \in Allocated : Mutate(ls, i)

Spec == Init /\ [][Next]_vars

\* the evaluators alone, on one individual
NextEval ==
    \/ \E L \in Levels, rs \in ReadLists, al \in Alphas, i \in Allocated :
          EvaluateLevel(L, rs, al, i)
    \/ \E rs \in ReadLists, al \in Alphas, i \in Allocated :
          Evaluate(rs, i, al)

SpecEval == InitEval /\ [][NextEval]_vars

\* a search run: one label list, one list of reads and one alpha throughout;
\* the fitness of an individual is taken at level 2
NextSearch ==
    \/ \E i \in Allocated : EvaluateLevel(2, Dataset, DatasetAlpha, i)
    \/ \E i1 \in Allocated, i2 \in Allocated : CrossoverSubtree(SearchLabels, i1, i2)
    \/ \E i1 \in Allocated, i2 \in Allocated :
          \E ch \in Choices(SearchLabels), r01 \in Random01 :
             CrossoverEdge(SearchLabels, i1, i2, ch, r01)
    \/ \E i1 \in Allocated, i2 \in Allocated :
          \E ch \in Choices(SearchLabels), r01 \in Random01 :
             Crossover(SearchLabels, i1, i2, ch, r01)
    \/ \E i \in Allocated : MutationAdd(SearchLabels, i)
    \/ \E i \in Allocated : Mutate(SearchLabels, i)

SpecSearch == InitSearch /\ [][NextSearch]_vars

\* ----------------------------------------------------------- the properties
CrossoverOps == {"crossover_subtree", "crossover_edge", "crossover"}
Carries(a, x) == x \in tree_labels(heap[a])

\* C1: every tree returned by crossover_subtree, crossover_edge and crossover
\* is a different object from both input individuals, on every path.
C1_OutputsAreNeverTheInputs ==
    (ret.op \in CrossoverOps /\ ~ret.raised) =>
        /\ ret.out1 \notin {ret.in1, ret.in2}
        /\ ret.out2 \notin {ret.in1, ret.in2}

\* C2: evaluate(reads, individual, alpha) returns the one-element tuple that
\* holds the level 2 fitness of the individual on the reads with weight alpha.
C2_EvaluateIsLevel2 ==
    ret.op = "evaluate" =>
        /\ ~ret.raised
        /\ ret.fitness =
              <<dollo_evaluate_direct_level2(heap, cache, ret.reads,
                    Number(ret.alpha), DolloNodeRef(ret.in1)).value>>

\* C3: crossover returns two trees and never raises, for every pair of trees
\* and every label list; subtree exchange is tried first, edge exchange only
\* after it reported failure, the two copies only after both reported failure.
C3_CrossoverNeverRaises ==
    ret.op = "crossover" =>
        /\ ~ret.raised
        /\ {ret.out1, ret.out2} \subseteq Allocated
        /\ ret.tried \in {<<"subtrees">>, <<"subtrees", "edge">>,
                          <<"subtrees", "edge", "copies">>}

\* C4: mutate never raises: it returns a deep copy that is structurally
\* equal to the individual and is not the individual, the add mutation
\* having reported failure.
C4_MutateNeverRaises ==
    ret.op = "mutate" =>
        /\ ~ret.raised
        /\ ~ret.success
        /\ ret.out1 \in Allocated \ {ret.in1}
        /\ tree_is_equal(heap[ret.out1], heap[ret.in1])

\* C5: edge exchange on two unequal trees raises whenever the chosen
\* labeled variant, plus or minus, is not a node of one of the two trees.
C5_EdgeRaisesOnMissingVariant ==
    ( /\ ret.op = "crossover_edge"
      /\ ~tree_is_equal(heap[ret.in1], heap[ret.in2])
      /\ ret.variant # <<>>
      /\ (~Carries(ret.in1, ret.variant) \/ ~Carries(ret.in2, ret.variant)) )
    => ret.raised

\* C6: crossover_subtree and crossover_edge on two structurally equal trees
\* report failure, examine no label, draw no random number and return two
\* trees structurally equal to the two inputs.
C6_EqualTreesFail ==
    ( /\ ret.op \in {"crossover_subtree", "crossover_edge"}
      /\ tree_is_equal(heap[ret.in1], heap[ret.in2]) )
    => /\ ~ret.raised
       /\ ~ret.success
       /\ ret.examined = 0
       /\ ret.draws = 0
       /\ tree_is_equal(heap[ret.out1], heap[ret.in1])
       /\ tree_is_equal(heap[ret.out2], heap[ret.in2])

C6_Witness ==
    /\ ret.op = "crossover_edge"
    /\ ret.in1 # ret.in2
    /\ tree_is_equal(heap[ret.in1], heap[ret.in2])
    /\ ret.labels # <<>>

\* C7: for alpha >= 0 every level is at least the level below it, being the
\* level below plus alpha (singles), alpha^2 (pairs) or alpha^2 (triples)
\* times a sum of distances; level 1 with alpha = 0 is level 0 exactly.
LevelWeight(L, alpha) == IF L = 1 THEN AlphaDen * alpha ELSE alpha * alpha
C7_LevelsAreMonotone ==
    ( /\ ret.op = "evaluate_level"
      /\ ret.level >= 1
      /\ ret.alpha >= 0 )
    => LET below == evaluate_level(ret.level - 1, heap, cache, ret.reads,
                        Number(ret.alpha), DolloNodeRef(ret.in1)).value
           terms == LevelSum(heap, cache, DolloNodeRef(ret.in1), ret.reads,
                             ret.level)
       IN /\ ~ret.raised
          /\ terms >= 0
          /\ ret.value = below + LevelWeight(ret.level, ret.alpha) * terms
          /\ ret.value >= below
          /\ (ret.level = 1 /\ ret.alpha = 0) => ret.value = below

C7_Witness ==
    /\ ret.op = "evaluate_level"
    /\ ret.level = 3
    /\ ret.alpha = 1
    /\ ret.value >
          dollo_evaluate_direct_level2(heap, cache, ret.reads,
              Number(ret.alpha), DolloNodeRef(ret.in1)).value

\* C8: no step changes a tree that was there before it: the individuals
\* handed to a crossover keep their nodes, labels, links and signatures.
C8_OriginalsUntouched ==
    [][\A a \in DOMAIN heap : a \in DOMAIN heap' /\ heap'[a] = heap[a]]_vars

C8_Witness ==
    /\ ret.op = "crossover_subtree"
    /\ ret.success
    /\ ~tree_is_equal(heap[ret.out1], heap[ret.in1])

\* C9: on two unequal trees subtree exchange succeeds exactly when some
\* label of the list passes all guards; it then exchanges at the first such
\* label only: the node of tree 2 hangs, as last child, below the old
\* parent of the node of tree 1 and the other way round, the rest of both
\* trees is as it was, and no later label is examined.
Covered(t, lab) == set_consits_of_plus_lebels(tree_get_partition(t)[lab])
SubtreeOf(t, lab) == NodeAt(t, find(t, lab).path)
Matches(t1, t2, lab) ==
    /\ lab \in DOMAIN tree_get_partition(t1)
    /\ lab \in DOMAIN tree_get_partition(t2)
    /\ Covered(t1, lab) # {}
    /\ Covered(t1, lab) = Covered(t2, lab)
    /\ ~tree_is_equal(SubtreeOf(t1, lab), SubtreeOf(t2, lab))
ExchangedAt(old, new, other, lab) ==
    LET p == find(old, lab).path
        q == find(new, lab).path
    IN /\ Front(q) = Front(p)
       /\ q[Len(q)] = Len(NodeAt(new, Front(q)).children)
       /\ tree_is_equal(NodeAt(new, q), SubtreeOf(other, lab))
       /\ tree_is_equal(Detach(new, q), Detach(old, p))
C9_FirstMatchIsExchanged ==
    ( /\ ret.op = "crossover_subtree"
      /\ ~tree_is_equal(heap[ret.in1], heap[ret.in2]) )
    => LET t1 == heap[ret.in1]
           t2 == heap[ret.in2]
           hits == {k \in 1..Len(ret.labels) : Matches(t1, t2, Plus(ret.labels[k]))}
       IN /\ ~ret.raised
          /\ ret.success <=> hits # {}
          /\ ret.success =>
                /\ ret.examined \in hits
                /\ \A k \in hits : ret.examined <= k
                /\ ret.variant = Plus(ret.labels[ret.examined])
                /\ ExchangedAt(t1, heap[ret.out1], t2, ret.variant)
                /\ ExchangedAt(t2, heap[ret.out2], t1, ret.variant)
          /\ ~ret.success =>
                /\ ret.examined = Len(ret.labels)
                /\ tree_is_equal(heap[ret.out1], t1)
                /\ tree_is_equal(heap[ret.out2], t2)

C9_Witness ==
    /\ ret.op = "crossover_subtree"
    /\ ret.success
    /\ \E k \in (ret.examined + 1)..Len(ret.labels) :
          Matches(heap[ret.in1], heap[ret.in2], Plus(ret.labels[k]))

\* C10: every entry of the distance cache is what closest_node_in_tree
\* returns now for its tree and its read.
C10_CacheIsNeverStale ==
    \A k \in DOMAIN cache : cache[k] = closest_node_in_tree(heap[k[1]], k[2])

C10_Witness ==
    /\ ret.op = "crossover_subtree"
    /\ ret.success
    /\ \E k \in DOMAIN cache : k[1] = ret.in1

====
